---- MODULE Spec2Model ----
(***************************************************************************)
(* A model of the ai-model-service: the prediction engine (ml_model.rs),   *)
(* the Prometheus instrumentation (prometheus.rs, middleware.rs), the      *)
(* predict handler (predict.rs) and the router of main.rs.                 *)
(*                                                                         *)
(* Numbers.  An f64 is modelled by a record [k, v]: k = "fin" with v the   *)
(* value in hundredths, k = "inf" with v the sign, or k = "nan".  The      *)
(* arithmetic is exact on the finite values (rounding is not modelled) and *)
(* overflows to an infinity beyond F64_MAX, as IEEE-754 does beyond        *)
(* f64::MAX.  A confidence is an integer number of millionths, a request   *)
(* duration an integer number of milliseconds, an uptime an integer number *)
(* of seconds.                                                             *)
(***************************************************************************)
EXTENDS Integers, Sequences, FiniteSets, TLC

\* ------------------------------------------------------------------ bounds
MaxRequests == 2     \* requests served by the process (all may be in flight at once)
MaxSetupCalls == 2   \* calls of setup_metrics_recorder in one process
MaxClock == 2        \* seconds of wall time
MaxLen == 11         \* longest feature vector handed to the engine

\* --------------------------------------------------------------- f64 values
F64_MAX == 1000000   \* the largest finite value, in hundredths

Fin(n) == [k |-> "fin", v |-> n]
NaN == [k |-> "nan", v |-> 0]
PosInf == [k |-> "inf", v |-> 1]
NegInf == [k |-> "inf", v |-> -1]

\* f64::is_finite
is_finite(x) == x.k = "fin"

\* The result of an exact operation, brought back into the f64 range.
F64Of(n) == IF n > F64_MAX THEN PosInf ELSE IF n < -F64_MAX THEN NegInf ELSE Fin(n)

FAdd(a, b) ==
    IF a.k = "nan" \/ b.k = "nan" THEN NaN
    ELSE IF a.k = "inf" /\ b.k = "inf" THEN (IF a.v = b.v THEN a ELSE NaN)
    ELSE IF a.k = "inf" THEN a
    ELSE IF b.k = "inf" THEN b
    ELSE F64Of(a.v + b.v)

FNeg(a) == [k |-> a.k, v |-> -a.v]

FSub(a, b) == FAdd(a, FNeg(b))

\* f64::abs
FAbs(a) == [k |-> a.k, v |-> IF a.v < 0 THEN -a.v ELSE a.v]

Sign(n) == IF n < 0 THEN -1 ELSE IF n > 0 THEN 1 ELSE 0

FMul(a, b) ==
    IF a.k = "nan" \/ b.k = "nan" THEN NaN
    ELSE IF a.k = "inf" \/ b.k = "inf"
         THEN (IF Sign(a.v) * Sign(b.v) = 0 THEN NaN
               ELSE [k |-> "inf", v |-> Sign(a.v) * Sign(b.v)])
    ELSE F64Of((a.v * b.v) \div 100)

\* Display of an f64 that is not finite, and of a usize.
f64_to_string(x) ==
    IF x.k = "nan" THEN "NaN"
    ELSE IF x.k = "inf" THEN (IF x.v > 0 THEN "inf" ELSE "-inf")
    ELSE ToString(x.v)

usize_to_string(n) == ToString(n)

\* ------------------------------------------------------------- ml_model.rs
EXPECTED_FEATURES == 10
MODEL_VERSION == "v1.0.0"

\* LinearRegressionModel::new
LinearRegressionModel_new ==
    [weights |-> << Fin(15), Fin(-23), Fin(87), Fin(-45), Fin(67),
                    Fin(34), Fin(-12), Fin(89), Fin(-56), Fin(78) >>,
     bias |-> Fin(250)]

\* anyhow::Result: Ok(()) or Err(message); a message is the sequence of its parts.
ResultOk == [ok |-> TRUE, err |-> << >>]
ResultErr(msg) == [ok |-> FALSE, err |-> msg]

\* The loop of validate_features over (index, value), from position i (1-based).
RECURSIVE check_finite_from(_, _)
check_finite_from(features, i) ==
    IF i > Len(features) THEN ResultOk
    ELSE IF ~is_finite(features[i])
         THEN ResultErr(<< "Invalid feature value at index", usize_to_string(i - 1),
                           f64_to_string(features[i]) >>)
         ELSE check_finite_from(features, i + 1)

\* validate_features with the two checks in the other order.
validate_features_finite_first(self, features) ==
    LET r == check_finite_from(features, 1) IN
    IF ~r.ok THEN r
    ELSE IF Len(features) # EXPECTED_FEATURES
         THEN ResultErr(<< "Expected", usize_to_string(EXPECTED_FEATURES),
                           "features, got", usize_to_string(Len(features)) >>)
         ELSE ResultOk

\* LinearRegressionModel::validate_features
validate_features(self, features) ==
    IF Len(features) # EXPECTED_FEATURES
    THEN ResultErr(<< "Expected", usize_to_string(EXPECTED_FEATURES),
                      "features, got", usize_to_string(Len(features)) >>)
    ELSE check_finite_from(features, 1)

Min(a, b) == IF a < b THEN a ELSE b

\* One of the eight accumulators of the unrolled dot product: lane j summed
\* over the full chunks of eight, from chunk c on.
RECURSIVE dot_lane(_, _, _, _, _, _)
dot_lane(w, x, j, c, nchunks, acc) ==
    IF c >= nchunks THEN acc
    ELSE dot_lane(w, x, j, c + 1, nchunks, FAdd(acc, FMul(w[8 * c + j], x[8 * c + j])))

\* The elements after the last full chunk, added one at a time.
RECURSIVE dot_rest(_, _, _, _, _)
dot_rest(w, x, i, n, sum) ==
    IF i > n THEN sum
    ELSE dot_rest(w, x, i + 1, n, FAdd(sum, FMul(w[i], x[i])))

\* Array1::dot on f64 without BLAS: eight partial sums over chunks of eight,
\* combined pairwise, then the remaining elements.
dot(w, x) ==
    LET n == Min(Len(w), Len(x))
        nchunks == n \div 8
        p(j) == dot_lane(w, x, j, 0, nchunks, Fin(0))
        s1 == FAdd(Fin(0), FAdd(p(1), p(5)))
        s2 == FAdd(s1, FAdd(p(2), p(6)))
        s3 == FAdd(s2, FAdd(p(3), p(7)))
        s4 == FAdd(s3, FAdd(p(4), p(8)))
    IN dot_rest(w, x, 8 * nchunks + 1, n, s4)

\* (distance / max_distance).min(1.0), as a numerator over max_distance:
\* f64::min returns the other operand when one is NaN.
normalized(distance, max_distance) ==
    IF distance.k = "nan" THEN max_distance
    ELSE IF distance.k = "inf" THEN (IF distance.v > 0 THEN max_distance ELSE 0)
    ELSE Min(distance.v, max_distance)

\* calculate_confidence without the .min(1.0) cap.
calculate_confidence_uncapped(self, prediction) ==
    LET distance_from_bias == FAbs(FSub(prediction, self.bias))
        max_distance == 5000
        d == IF distance_from_bias.k = "fin" THEN distance_from_bias.v ELSE max_distance
    IN 850000 + ((max_distance - d) * 150000) \div max_distance

\* LinearRegressionModel::calculate_confidence, in millionths.
calculate_confidence(self, prediction) ==
    LET distance_from_bias == FAbs(FSub(prediction, self.bias))
        max_distance == 5000
        normalized_distance == normalized(distance_from_bias, max_distance)
    IN 850000 + ((max_distance - normalized_distance) * 150000) \div max_distance

\* Result<PredictionResponse>
PredictionOk(prediction, confidence) ==
    [ok |-> TRUE, prediction |-> prediction, confidence |-> confidence,
     model_version |-> MODEL_VERSION, err |-> << >>]
PredictionErr(msg) ==
    [ok |-> FALSE, prediction |-> Fin(0), confidence |-> 0,
     model_version |-> "", err |-> msg]
NoResult == [ok |-> FALSE, prediction |-> Fin(0), confidence |-> 0,
             model_version |-> "", err |-> << >>]

\* ------------------------------------------------------------------- state
VARIABLES
    registered,                     \* lazy statics initialised so far (registered metric families)
    HTTP_REQUESTS_TOTAL,            \* CounterVec: label tuple -> count
    HTTP_REQUEST_DURATION_SECONDS,  \* HistogramVec: label tuple -> histogram
    ML_PREDICTIONS_TOTAL,           \* CounterVec
    ML_PREDICTION_CONFIDENCE,       \* HistogramVec
    ACTIVE_CONNECTIONS,             \* Gauge
    SERVICE_UPTIME_SECONDS,         \* Gauge
    MODEL_INSTANCE,                 \* OnceLock: << >> or << model >>
    new_calls,                      \* runs of LinearRegressionModel::new so far
    setup_calls,                    \* calls of setup_metrics_recorder so far
    now,                            \* the monotonic clock, in seconds
    samplers,                       \* the spawned update_uptime_metrics tasks
    req,                            \* the requests: request id -> its task's state
    input,                          \* the vector of a direct call of the engine
    outcome                         \* and what the call returned

vars == << registered, HTTP_REQUESTS_TOTAL, HTTP_REQUEST_DURATION_SECONDS,
           ML_PREDICTIONS_TOTAL, ML_PREDICTION_CONFIDENCE, ACTIVE_CONNECTIONS,
           SERVICE_UPTIME_SECONDS, MODEL_INSTANCE, new_calls, setup_calls, now,
           samplers, req, input, outcome >>

metric_vars == << HTTP_REQUESTS_TOTAL, HTTP_REQUEST_DURATION_SECONDS,
                  ML_PREDICTIONS_TOTAL, ML_PREDICTION_CONFIDENCE >>
uptime_vars == << ACTIVE_CONNECTIONS, SERVICE_UPTIME_SECONDS, setup_calls, now, samplers >>
engine_vars == << input, outcome >>
model_vars == << MODEL_INSTANCE, new_calls >>

\* predict reading a value that changes between calls (the number of
\* predictions recorded so far) into the bias.
predict_hidden_state(self, feature_vec) ==
    LET v == validate_features(self, feature_vec)
        n == Cardinality(DOMAIN ML_PREDICTIONS_TOTAL)
        prediction == FAdd(dot(self.weights, feature_vec), FAdd(self.bias, Fin(100 * n)))
    IN IF ~v.ok THEN PredictionErr(v.err)
       ELSE PredictionOk(prediction, calculate_confidence(self, prediction))

\* LinearRegressionModel::predict
predict(self, feature_vec) ==
    LET v == validate_features(self, feature_vec)
        prediction == FAdd(dot(self.weights, feature_vec), self.bias)
        confidence == calculate_confidence(self, prediction)
    IN IF ~v.ok THEN PredictionErr(v.err)
       ELSE PredictionOk(prediction, confidence)

\* ----------------------------------------------------------- prometheus.rs
MetricNames == { "http_requests_total", "http_request_duration_seconds",
                 "ml_predictions_total", "ml_prediction_confidence",
                 "active_connections_total", "service_uptime_seconds" }

\* Bucket bounds: durations in milliseconds, confidences in millionths.
DurationBuckets == << 1, 5, 10, 50, 100, 250, 500, 1000, 2500, 5000, 10000 >>
ConfidenceBuckets == << 850000, 870000, 890000, 910000, 930000, 950000, 970000,
                        990000, 1000000 >>

\* A lazy static is initialised, and its metric registered, on first use.
Deref(name) == registered \cup {name}

\* with_label_values(labels).inc() that stores 1 instead of adding 1.
CounterIncOverwrite(c, labels) ==
    [l \in DOMAIN c \cup {labels} |-> IF l = labels THEN 1 ELSE c[l]]

\* CounterVec::with_label_values(labels).inc(): the child is created at 0 on
\* first use; the increment is one atomic add.
CounterInc(c, labels) ==
    [l \in DOMAIN c \cup {labels} |->
        IF l = labels THEN (IF labels \in DOMAIN c THEN c[labels] ELSE 0) + 1
        ELSE c[l]]

EmptyHistogram(bounds) ==
    [sample_count |-> 0, sample_sum |-> 0, buckets |-> [i \in DOMAIN bounds |-> 0]]

\* observe as a read of the child followed by a write of a fresh child with
\* this one observation: the earlier observations are lost.
HistObserveReplace(h, labels, v, bounds) ==
    LET new == [sample_count |-> 1,
                sample_sum |-> v,
                buckets |-> [i \in DOMAIN bounds |-> IF v <= bounds[i] THEN 1 ELSE 0]]
    IN [l \in DOMAIN h \cup {labels} |-> IF l = labels THEN new ELSE h[l]]

\* HistogramVec::with_label_values(labels).observe(v); buckets are cumulative,
\* as exported.
HistObserve(h, labels, v, bounds) ==
    LET old == IF labels \in DOMAIN h THEN h[labels] ELSE EmptyHistogram(bounds)
        new == [sample_count |-> old.sample_count + 1,
                sample_sum |-> old.sample_sum + v,
                buckets |-> [i \in DOMAIN bounds |->
                                IF v <= bounds[i] THEN old.buckets[i] + 1
                                ELSE old.buckets[i]]]
    IN [l \in DOMAIN h \cup {labels} |-> IF l = labels THEN new ELSE h[l]]

\* u16::to_string of the status codes the service answers.
status_to_string(status) ==
    CASE status = 200 -> "200"
      [] status = 400 -> "400"
      [] status = 404 -> "404"
      [] status = 405 -> "405"
      [] status = 422 -> "422"

\* prometheus::gather, encoded: the names of the registered families that hold
\* at least one metric (a vec without children is left out).
gather ==
    { n \in registered :
        /\ n = "http_requests_total" => DOMAIN HTTP_REQUESTS_TOTAL # {}
        /\ n = "http_request_duration_seconds" => DOMAIN HTTP_REQUEST_DURATION_SECONDS # {}
        /\ n = "ml_predictions_total" => DOMAIN ML_PREDICTIONS_TOTAL # {}
        /\ n = "ml_prediction_confidence" => DOMAIN ML_PREDICTION_CONFIDENCE # {} }

\* The status label that ignores the outcome.
ml_status_always_success(success) == "success"

\* record_ml_prediction: the status label.
ml_status(success) == IF success THEN "success" ELSE "error"

\* ------------------------------------------------------- requests (main.rs)
Requests == 1 .. MaxRequests

Methods == { "GET", "POST" }
Routes == { "/health", "/predict", "/metrics" }
Paths == Routes \cup { "/nonexistent" }
Statuses == { 200, 400, 404, 405, 422 }
DurationsMs == { 0, 3 }

Rep(n, x) == [i \in 1 .. n |-> x]

\* The feature arrays a JSON body can carry: serde_json yields finite numbers only.
JsonFeatureVectors ==
    { Rep(EXPECTED_FEATURES, Fin(0)), Rep(EXPECTED_FEATURES, Fin(100)), Rep(3, Fin(100)) }

\* A request body: only POST /predict reads it.
Bodies ==
    { [kind |-> "invalid_json", features |-> << >>],
      [kind |-> "missing_features", features |-> << >>] }
    \cup { [kind |-> "features", features |-> f] : f \in JsonFeatureVectors }
NoBody == [kind |-> "none", features |-> << >>]

IdleRequest ==
    [pc |-> "idle", method |-> "", path |-> "", body |-> NoBody, model |-> << >>,
     result |-> NoResult, status |-> 0, metrics_body |-> {}, duration |-> 0]

\* The method router of main.rs: the handler a method has on a route.
RouteHandler(method, path) ==
    IF path = "/health" /\ method = "GET" THEN "health_check"
    ELSE IF path = "/predict" /\ method = "POST" THEN "predict"
    ELSE IF path = "/metrics" /\ method = "GET" THEN "metrics_handler"
    ELSE IF path \in Routes THEN "method_not_allowed"
    ELSE "not_found"

\* metrics_middleware, lines 7-12: the method and the path are read and the
\* request is passed on.
MiddlewareStart(r) ==
    /\ setup_calls >= 1
    /\ req[r].pc = "idle"
    /\ \E method \in Methods, path \in Paths :
         \E body \in (IF RouteHandler(method, path) = "predict" THEN Bodies ELSE {NoBody}) :
            req' = [req EXCEPT ![r] = [@ EXCEPT !.pc = "next_run", !.method = method,
                                                 !.path = path, !.body = body]]
    /\ UNCHANGED << registered, metric_vars, uptime_vars, model_vars, engine_vars >>

\* The response reaches the middleware.
Respond(r, status) == [req[r] EXCEPT !.pc = "recording", !.status = status]

\* health_check
HealthCheck(r) ==
    /\ req[r].pc = "next_run"
    /\ RouteHandler(req[r].method, req[r].path) = "health_check"
    /\ req' = [req EXCEPT ![r] = Respond(r, 200)]
    /\ UNCHANGED << registered, metric_vars, uptime_vars, model_vars, engine_vars >>

\* metrics_handler: the registry is gathered and encoded.
MetricsHandler(r) ==
    /\ req[r].pc = "next_run"
    /\ RouteHandler(req[r].method, req[r].path) = "metrics_handler"
    /\ req' = [req EXCEPT ![r] = [Respond(r, 200) EXCEPT !.metrics_body = gather]]
    /\ UNCHANGED << registered, metric_vars, uptime_vars, model_vars, engine_vars >>

\* The router's answers without a handler: 405 on a route, 404 elsewhere.
Fallback(r) ==
    /\ req[r].pc = "next_run"
    /\ \/ /\ RouteHandler(req[r].method, req[r].path) = "method_not_allowed"
          /\ req' = [req EXCEPT ![r] = Respond(r, 405)]
       \/ /\ RouteHandler(req[r].method, req[r].path) = "not_found"
          /\ req' = [req EXCEPT ![r] = Respond(r, 404)]
    /\ UNCHANGED << registered, metric_vars, uptime_vars, model_vars, engine_vars >>

\* An extractor that rejects nothing: every body reaches the handler.
json_rejection_none(body) == 0

\* The Json<PredictionRequest> extractor of predict: the status of its
\* rejection (400 on a syntax error, 422 when the object does not deserialize
\* into a PredictionRequest), or 0 when the body is parsed.
json_rejection(body) ==
    IF body.kind = "invalid_json" THEN 400
    ELSE IF body.kind = "missing_features" THEN 422
    ELSE 0

\* The Json extractor of predict rejects the body: the handler does not run.
JsonRejection(r) ==
    /\ req[r].pc = "next_run"
    /\ RouteHandler(req[r].method, req[r].path) = "predict"
    /\ json_rejection(req[r].body) # 0
    /\ req' = [req EXCEPT ![r] = Respond(r, json_rejection(req[r].body))]
    /\ UNCHANGED << registered, metric_vars, uptime_vars, model_vars, engine_vars >>

\* Every caller that reaches the slow path runs the initializer: a get_or_init
\* without the Once.
once_runs_always(instance) == TRUE

\* OnceLock::initialize: the Once runs the initializer only for the caller that
\* finds the cell not yet completed; the callers that raced it wait and skip it.
once_runs(instance) == instance = << >>

\* get_model: OnceLock::get_or_init(LinearRegressionModel::new), the cell after
\* the call.
get_model == IF once_runs(MODEL_INSTANCE) THEN << LinearRegressionModel_new >> ELSE MODEL_INSTANCE

\* predict (handler), lines 8-17: the body is extracted and get_model is called;
\* get_or_init first reads the cell, and returns its value when it is set.
PredictGetModel(r) ==
    /\ req[r].pc = "next_run"
    /\ RouteHandler(req[r].method, req[r].path) = "predict"
    /\ json_rejection(req[r].body) = 0
    /\ \/ /\ MODEL_INSTANCE # << >>
          /\ req' = [req EXCEPT ![r] = [@ EXCEPT !.pc = "predict", !.model = MODEL_INSTANCE]]
       \/ /\ MODEL_INSTANCE = << >>
          /\ req' = [req EXCEPT ![r] = [@ EXCEPT !.pc = "initialize"]]
    /\ UNCHANGED << registered, metric_vars, uptime_vars, model_vars, engine_vars >>

\* get_model, the slow path of get_or_init: the cell was empty when this caller
\* read it; under the Once the initializer runs if the cell is still empty, and
\* the caller returns the reference to the cell's value.
OnceInitialize(r) ==
    /\ req[r].pc = "initialize"
    /\ new_calls' = new_calls + (IF once_runs(MODEL_INSTANCE) THEN 1 ELSE 0)
    /\ MODEL_INSTANCE' = get_model
    /\ req' = [req EXCEPT ![r] = [@ EXCEPT !.pc = "predict", !.model = MODEL_INSTANCE']]
    /\ UNCHANGED << registered, metric_vars, uptime_vars, engine_vars >>

\* predict (handler), line 20: model.predict(&request.features)
PredictCall(r) ==
    /\ req[r].pc = "predict"
    /\ req' = [req EXCEPT ![r] = [@ EXCEPT !.pc = "record_ml_inc",
                  !.result = predict(req[r].model[1], req[r].body.features)]]
    /\ UNCHANGED << registered, metric_vars, uptime_vars, model_vars, engine_vars >>

\* The arguments the handler passes to record_ml_prediction (lines 23 and 34).
ml_version_label(result) == IF result.ok THEN result.model_version ELSE "v1.0.0"
ml_confidence_arg_zero(result) == 0
ml_confidence_arg(result) == IF result.ok THEN result.confidence ELSE 0

\* The handler answering 200 whatever predict returned.
predict_status_always_ok(result) == 200

\* predict (handler), lines 21-42: Ok(Json(response)) is a 200, an Err of
\* predict is answered Err(StatusCode::BAD_REQUEST).
predict_status(result) == IF result.ok THEN 200 ELSE 400

\* record_ml_prediction, lines 124-128: the counter.  On failure it is the
\* whole recording and the handler answers 400.
RecordMlInc(r) ==
    /\ req[r].pc = "record_ml_inc"
    /\ registered' = Deref("ml_predictions_total")
    /\ ML_PREDICTIONS_TOTAL' =
          CounterInc(ML_PREDICTIONS_TOTAL,
                     << ml_version_label(req[r].result), ml_status(req[r].result.ok) >>)
    /\ req' = [req EXCEPT ![r] =
                  IF req[r].result.ok THEN [@ EXCEPT !.pc = "record_ml_observe"]
                  ELSE Respond(r, predict_status(req[r].result))]
    /\ UNCHANGED << HTTP_REQUESTS_TOTAL, HTTP_REQUEST_DURATION_SECONDS,
                    ML_PREDICTION_CONFIDENCE, uptime_vars, model_vars, engine_vars >>

\* record_ml_prediction, lines 130-134: the confidence histogram, on success;
\* the handler then answers 200.
RecordMlObserve(r) ==
    /\ req[r].pc = "record_ml_observe"
    /\ registered' = Deref("ml_prediction_confidence")
    /\ ML_PREDICTION_CONFIDENCE' =
          HistObserve(ML_PREDICTION_CONFIDENCE, << ml_version_label(req[r].result) >>,
                      ml_confidence_arg(req[r].result), ConfidenceBuckets)
    /\ req' = [req EXCEPT ![r] = Respond(r, predict_status(req[r].result))]
    /\ UNCHANGED << HTTP_REQUESTS_TOTAL, HTTP_REQUEST_DURATION_SECONDS,
                    ML_PREDICTIONS_TOTAL, uptime_vars, model_vars, engine_vars >>

\* record_http_request labelling every request as a 200.
http_counter_labels_ok(method, endpoint, status) == << method, endpoint, "200" >>

\* The label tuples record_http_request uses for a request.
http_counter_labels(method, endpoint, status) == << method, endpoint, status_to_string(status) >>
http_histogram_labels(method, endpoint) == << method, endpoint >>

\* metrics_middleware, lines 15-18, and record_http_request, lines 111-115:
\* the elapsed time and the status are read and the counter incremented.
RecordHttpInc(r) ==
    /\ req[r].pc = "recording"
    /\ registered' = Deref("http_requests_total")
    /\ HTTP_REQUESTS_TOTAL' =
          CounterInc(HTTP_REQUESTS_TOTAL,
                     http_counter_labels(req[r].method, req[r].path, req[r].status))
    /\ \E duration \in DurationsMs :
          req' = [req EXCEPT ![r] = [@ EXCEPT !.pc = "observing", !.duration = duration]]
    /\ UNCHANGED << HTTP_REQUEST_DURATION_SECONDS, ML_PREDICTIONS_TOTAL,
                    ML_PREDICTION_CONFIDENCE, uptime_vars, model_vars, engine_vars >>

\* record_http_request, lines 117-119, and the middleware's return.
RecordHttpObserve(r) ==
    /\ req[r].pc = "observing"
    /\ registered' = Deref("http_request_duration_seconds")
    /\ HTTP_REQUEST_DURATION_SECONDS' =
          HistObserve(HTTP_REQUEST_DURATION_SECONDS,
                      http_histogram_labels(req[r].method, req[r].path),
                      req[r].duration, DurationBuckets)
    /\ req' = [req EXCEPT ![r] = [@ EXCEPT !.pc = "done", !.duration = 0]]
    /\ UNCHANGED << HTTP_REQUESTS_TOTAL, ML_PREDICTIONS_TOTAL, ML_PREDICTION_CONFIDENCE,
                    uptime_vars, model_vars, engine_vars >>

\* ------------------------------------------------- uptime (prometheus.rs)
\* set_active_connections
set_active_connections(count) == count

\* setup_metrics_recorder: both gauges are set to 0 (which initialises their
\* statics) and one more update_uptime_metrics task is spawned.
setup_metrics_recorder ==
    /\ setup_calls < MaxSetupCalls
    /\ setup_calls' = setup_calls + 1
    /\ SERVICE_UPTIME_SECONDS' = 0
    /\ ACTIVE_CONNECTIONS' = set_active_connections(0)
    /\ registered' = registered \cup { "service_uptime_seconds", "active_connections_total" }
    /\ samplers' = Append(samplers, [running |-> FALSE, start_time |-> 0, next_tick |-> 0])
    /\ UNCHANGED << metric_vars, now, model_vars, req, engine_vars >>

\* update_uptime_metrics, first poll: the start time is taken and the first
\* tick of the interval, which completes at once, writes the gauge.
SamplerStart(i) ==
    /\ ~samplers[i].running
    /\ samplers' = [samplers EXCEPT ![i] =
                       [running |-> TRUE, start_time |-> now, next_tick |-> now + 1]]
    /\ SERVICE_UPTIME_SECONDS' = now - now
    /\ UNCHANGED << registered, metric_vars, ACTIVE_CONNECTIONS, setup_calls, now,
                    model_vars, req, engine_vars >>

\* update_uptime_metrics, a later turn of the loop: a tick that is due writes
\* the time elapsed since the task's own start.
SamplerTick(i) ==
    /\ samplers[i].running
    /\ now >= samplers[i].next_tick
    /\ SERVICE_UPTIME_SECONDS' = now - samplers[i].start_time
    /\ samplers' = [samplers EXCEPT ![i].next_tick = @ + 1]
    /\ UNCHANGED << registered, metric_vars, ACTIVE_CONNECTIONS, setup_calls, now,
                    model_vars, req, engine_vars >>

\* A second of wall time passes.
ClockTick ==
    /\ now < MaxClock
    /\ now' = now + 1
    /\ UNCHANGED << registered, metric_vars, ACTIVE_CONNECTIONS, SERVICE_UPTIME_SECONDS,
                    setup_calls, samplers, model_vars, req, engine_vars >>

\* ------------------------------------------------------------ direct calls
\* The values the elements of a directly passed vector are drawn from.
EngineValues ==
    { Fin(0), Fin(100), Fin(3000), Fin(F64_MAX), Fin(-F64_MAX), NaN, PosInf, NegInf }

\* Vectors of every length up to MaxLen whose elements take at most two values.
FeatureVectors ==
    UNION { [1 .. n -> {a, b}] : n \in 0 .. MaxLen, a \in EngineValues, b \in EngineValues }

NoOutcome == [called |-> FALSE, result |-> NoResult]

\* model.predict(&features) on a model built by LinearRegressionModel::new().
EnginePredict ==
    /\ ~outcome.called
    /\ outcome' = [called |-> TRUE, result |-> predict(LinearRegressionModel_new, input)]
    /\ UNCHANGED << registered, metric_vars, uptime_vars, model_vars, req, input >>

\* ----------------------------------------------------------- specifications
\* The process before main has run setup_metrics_recorder.
ProcessStart ==
    /\ registered = {}
    /\ HTTP_REQUESTS_TOTAL = << >>
    /\ HTTP_REQUEST_DURATION_SECONDS = << >>
    /\ ML_PREDICTIONS_TOTAL = << >>
    /\ ML_PREDICTION_CONFIDENCE = << >>
    /\ ACTIVE_CONNECTIONS = 0
    /\ SERVICE_UPTIME_SECONDS = 0
    /\ MODEL_INSTANCE = << >>
    /\ new_calls = 0
    /\ setup_calls = 0
    /\ now = 0
    /\ samplers = << >>
    /\ req = [r \in Requests |-> IdleRequest]

Init ==
    /\ ProcessStart
    /\ input = << >>
    /\ outcome = NoOutcome

\* main, line 29: the one call of setup_metrics_recorder, before the router is built.
MainSetup ==
    /\ setup_calls = 0
    /\ setup_metrics_recorder

\* The steps of the request tasks.
NextRequests ==
    \/ \E r \in Requests : MiddlewareStart(r)
    \/ \E r \in Requests : HealthCheck(r)
    \/ \E r \in Requests : MetricsHandler(r)
    \/ \E r \in Requests : Fallback(r)
    \/ \E r \in Requests : JsonRejection(r)
    \/ \E r \in Requests : PredictGetModel(r)
    \/ \E r \in Requests : OnceInitialize(r)
    \/ \E r \in Requests : PredictCall(r)
    \/ \E r \in Requests : RecordMlInc(r)
    \/ \E r \in Requests : RecordMlObserve(r)
    \/ \E r \in Requests : RecordHttpInc(r)
    \/ \E r \in Requests : RecordHttpObserve(r)

\* The steps of the sampler tasks and of the clock.
NextSamplers ==
    \/ \E i \in DOMAIN samplers : SamplerStart(i)
    \/ \E i \in DOMAIN samplers : SamplerTick(i)
    \/ ClockTick

\* The server of main.rs serving requests.  The sampler task it spawned writes
\* SERVICE_UPTIME_SECONDS only, which no request reads; its steps are left to
\* SpecUptime and SpecAll.
Next == MainSetup \/ NextRequests

Spec == Init /\ [][Next]_vars

\* The instrumentation alone: setup_metrics_recorder is a public function and
\* create_test_app calls it once per test of one process.
NextUptime == setup_metrics_recorder \/ NextSamplers

SpecUptime == Init /\ [][NextUptime]_vars

\* Everything together.
NextAll == NextUptime \/ NextRequests

SpecAll == Init /\ [][NextAll]_vars

\* Direct calls of the engine, as the unit tests make them.
InitEngine ==
    /\ ProcessStart
    /\ input \in FeatureVectors
    /\ outcome = NoOutcome

NextEngine == EnginePredict

SpecEngine == InitEngine /\ [][NextEngine]_vars

\* ------------------------------------------------------------------ claims
CounterAt(c, labels) == IF labels \in DOMAIN c THEN c[labels] ELSE 0
HistAt(h, labels, bounds) == IF labels \in DOMAIN h THEN h[labels] ELSE EmptyHistogram(bounds)

\* Where a request task stands relative to the recording steps.
PastMlInc == { "record_ml_observe", "recording", "observing", "done" }
PastMlObserve == { "recording", "observing", "done" }
PastHandler == { "recording", "observing", "done" }
PastHttpInc == { "observing", "done" }
PastPredict == { "record_ml_inc" } \cup PastMlInc

\* The label tuples fixed by the routes, methods and statuses of the service.
KnownHttpCounterLabels ==
    { << m, p, status_to_string(st) >> : m \in Methods, p \in Routes, st \in Statuses }
KnownHttpHistogramLabels == { << m, p >> : m \in Methods, p \in Routes }
KnownMlCounterLabels == { << MODEL_VERSION, st >> : st \in { "success", "error" } }
KnownMlHistogramLabels == { << MODEL_VERSION >> }

\* C1: in every reachable state the label tuples held by http_requests_total and
\* http_request_duration_seconds lie in the set fixed in advance (method x route
\* x status), and those of ml_predictions_total and ml_prediction_confidence in
\* model_version x status: no request adds a tuple outside it.
C1_LabelSetsBounded ==
    /\ DOMAIN HTTP_REQUESTS_TOTAL \subseteq KnownHttpCounterLabels
    /\ DOMAIN HTTP_REQUEST_DURATION_SECONDS \subseteq KnownHttpHistogramLabels
    /\ DOMAIN ML_PREDICTIONS_TOTAL \subseteq KnownMlCounterLabels
    /\ DOMAIN ML_PREDICTION_CONFIDENCE \subseteq KnownMlHistogramLabels

\* C2: once setup_metrics_recorder has run, the body of every answer of
\* GET /metrics holds each of the six metric names, also when no request and no
\* prediction has been recorded yet.
C2_ScrapeHoldsSixNames ==
    \A r \in Requests :
        (/\ req[r].pc \in PastHandler
         /\ RouteHandler(req[r].method, req[r].path) = "metrics_handler")
        => MetricNames \subseteq req[r].metrics_body

\* C3: a later read of service_uptime_seconds is never below an earlier one,
\* whatever calls of setup_metrics_recorder and sampler ticks lie between.
C3_UptimeNeverDecreases ==
    [][SERVICE_UPTIME_SECONDS' >= SERVICE_UPTIME_SECONDS]_vars

\* C4: at most one update_uptime_metrics task runs at any time, after any
\* number of calls of setup_metrics_recorder.
C4_AtMostOneSampler ==
    Cardinality({ i \in DOMAIN samplers : samplers[i].running }) <= 1

RECURSIVE SumConfidence(_)
SumConfidence(S) ==
    IF S = {} THEN 0
    ELSE LET r == CHOOSE x \in S : TRUE
         IN req[r].result.confidence + SumConfidence(S \ {r})

\* The request whose task takes the step from pc value `from`.
Steps(r, from) == req[r].pc = from /\ req'[r].pc # from

\* The two recording steps of an invocation whose model.predict succeeded.
C5_SuccessStep ==
    \A r \in Requests :
        /\ (Steps(r, "record_ml_inc") /\ req[r].result.ok) =>
              /\ ML_PREDICTIONS_TOTAL' =
                    [l \in DOMAIN ML_PREDICTIONS_TOTAL \cup { << "v1.0.0", "success" >> } |->
                        IF l = << "v1.0.0", "success" >>
                        THEN CounterAt(ML_PREDICTIONS_TOTAL, l) + 1
                        ELSE ML_PREDICTIONS_TOTAL[l]]
              /\ req'[r].pc = "record_ml_observe"
        /\ Steps(r, "record_ml_observe") =>
              /\ UNCHANGED ML_PREDICTIONS_TOTAL
              /\ LET old == HistAt(ML_PREDICTION_CONFIDENCE, << "v1.0.0" >>, ConfidenceBuckets)
                     new == HistAt(ML_PREDICTION_CONFIDENCE', << "v1.0.0" >>, ConfidenceBuckets)
                 IN /\ new.sample_count = old.sample_count + 1
                    /\ new.sample_sum = old.sample_sum + req'[r].result.confidence
                    /\ \A i \in DOMAIN ConfidenceBuckets :
                          new.buckets[i] - old.buckets[i] =
                             (IF req'[r].result.confidence <= ConfidenceBuckets[i] THEN 1 ELSE 0)
              /\ req'[r].status = 200
              /\ req'[r].result = req[r].result

\* The success counter and the histogram hold one entry per such invocation.
C5_SuccessCounts ==
    LET counted == { r \in Requests : req[r].result.ok /\ req[r].pc \in PastMlInc }
        observed == { r \in Requests : req[r].result.ok /\ req[r].pc \in PastMlObserve }
        hist == HistAt(ML_PREDICTION_CONFIDENCE, << "v1.0.0" >>, ConfidenceBuckets)
    IN /\ CounterAt(ML_PREDICTIONS_TOTAL, << "v1.0.0", "success" >>) = Cardinality(counted)
       /\ hist.sample_count = Cardinality(observed)
       /\ hist.sample_sum = SumConfidence(observed)

\* C5: each invocation of the predict handler whose model.predict succeeds adds
\* exactly 1 to ml_predictions_total{v1.0.0,success} and one observation, of the
\* confidence it returns, to ml_prediction_confidence{v1.0.0}; no other label of
\* the counter changes.
C5_SuccessRecordedOnce == []C5_SuccessCounts /\ [][C5_SuccessStep]_vars

\* A successful invocation has been recorded and answered.
C5_Witness ==
    \E r \in Requests :
        /\ req[r].pc = "done"
        /\ req[r].result.ok
        /\ req[r].status = 200
        /\ req[r].result.confidence = 992980
        /\ CounterAt(ML_PREDICTIONS_TOTAL, << "v1.0.0", "success" >>) >= 1
        /\ HistAt(ML_PREDICTION_CONFIDENCE, << "v1.0.0" >>, ConfidenceBuckets).sample_count >= 1

\* The recording step of an invocation whose model.predict failed.
C6_FailureStep ==
    \A r \in Requests :
        (Steps(r, "record_ml_inc") /\ ~req[r].result.ok) =>
            /\ ML_PREDICTIONS_TOTAL' =
                  [l \in DOMAIN ML_PREDICTIONS_TOTAL \cup { << "v1.0.0", "error" >> } |->
                      IF l = << "v1.0.0", "error" >>
                      THEN CounterAt(ML_PREDICTIONS_TOTAL, l) + 1
                      ELSE ML_PREDICTIONS_TOTAL[l]]
            /\ UNCHANGED ML_PREDICTION_CONFIDENCE
            /\ req'[r].pc = "recording"

\* The error counter holds one entry per such invocation, the histogram none.
C6_FailureCounts ==
    /\ CounterAt(ML_PREDICTIONS_TOTAL, << "v1.0.0", "error" >>) =
          Cardinality({ r \in Requests :
                          /\ req[r].pc \in PastMlInc
                          /\ req[r].body.kind = "features"
                          /\ ~req[r].result.ok })
    /\ HistAt(ML_PREDICTION_CONFIDENCE, << "v1.0.0" >>, ConfidenceBuckets).sample_count =
          Cardinality({ r \in Requests : req[r].pc \in PastMlObserve /\ req[r].result.ok })

\* C6: each invocation of the predict handler whose model.predict fails adds
\* exactly 1 to ml_predictions_total{v1.0.0,error}, the fixed fallback version,
\* and leaves the confidence histogram as it was.
C6_FailureRecordedOnce == []C6_FailureCounts /\ [][C6_FailureStep]_vars

\* A failed invocation has been recorded and answered 400.
C6_Witness ==
    \E r \in Requests :
        /\ req[r].pc = "done"
        /\ req[r].body.kind = "features"
        /\ ~req[r].result.ok
        /\ req[r].status = 400
        /\ CounterAt(ML_PREDICTIONS_TOTAL, << "v1.0.0", "error" >>) >= 1

\* Every counter child equals the number of callers past their increment.
C7_CountersExact ==
    /\ \A l \in DOMAIN HTTP_REQUESTS_TOTAL \cup
                { << m, p, status_to_string(st) >> : m \in Methods, p \in Paths, st \in Statuses } :
          CounterAt(HTTP_REQUESTS_TOTAL, l) =
             Cardinality({ r \in Requests :
                             /\ req[r].pc \in PastHttpInc
                             /\ << req[r].method, req[r].path, status_to_string(req[r].status) >> = l })
    /\ \A l \in DOMAIN ML_PREDICTIONS_TOTAL \cup KnownMlCounterLabels :
          CounterAt(ML_PREDICTIONS_TOTAL, l) =
             Cardinality({ r \in Requests :
                             /\ req[r].pc \in PastMlInc
                             /\ req[r].body.kind = "features"
                             /\ << "v1.0.0", IF req[r].result.ok THEN "success" ELSE "error" >> = l })

\* No step removes a counter child or lowers its value.
C7_CountersGrow ==
    /\ \A l \in DOMAIN HTTP_REQUESTS_TOTAL :
          l \in DOMAIN HTTP_REQUESTS_TOTAL' /\ HTTP_REQUESTS_TOTAL'[l] >= HTTP_REQUESTS_TOTAL[l]
    /\ \A l \in DOMAIN ML_PREDICTIONS_TOTAL :
          l \in DOMAIN ML_PREDICTIONS_TOTAL' /\ ML_PREDICTIONS_TOTAL'[l] >= ML_PREDICTIONS_TOTAL[l]

\* C7: when N callers increment the same label tuple of a counter, the counter
\* has grown by exactly N once they have returned, under every interleaving: no
\* increment is lost or applied twice, and no counter value ever decreases.
C7_NoLostIncrement == []C7_CountersExact /\ [][C7_CountersGrow]_vars

\* Two concurrent predict requests have both incremented the same children.
C7_Witness ==
    \E r1, r2 \in Requests :
        /\ r1 # r2
        /\ req[r1].pc = "observing" /\ req[r2].pc = "observing"
        /\ req[r1].method = req[r2].method
        /\ req[r1].path = req[r2].path
        /\ req[r1].status = req[r2].status
        /\ req[r1].body.kind = "features" /\ req[r2].body.kind = "features"
        /\ req[r1].result.ok = req[r2].result.ok
        /\ HTTP_REQUESTS_TOTAL[<< req[r1].method, req[r1].path,
                                  status_to_string(req[r1].status) >>] = 2
        /\ ML_PREDICTIONS_TOTAL[<< "v1.0.0", IF req[r1].result.ok THEN "success" ELSE "error" >>] = 2

\* C8: the outcome of validating a feature vector in predict is that of the
\* reference: a length other than 10 gives the wrong-count error naming 10 and
\* the length, whatever the elements are; otherwise a NaN or infinite element
\* gives the non-finite error naming the smallest such index and its value;
\* otherwise validation succeeds.  The two errors differ in their first part.
C8_ValidationOutcome ==
    outcome.called =>
        LET bad == { i \in 1 .. Len(input) : input[i].k # "fin" }
            first == CHOOSE i \in bad : \A j \in bad : i <= j
            shown == IF input[first] = NaN THEN "NaN"
                     ELSE IF input[first] = PosInf THEN "inf" ELSE "-inf"
        IN IF Len(input) # 10
           THEN /\ ~outcome.result.ok
                /\ outcome.result.err =
                      << "Expected", "10", "features, got", ToString(Len(input)) >>
           ELSE IF bad # {}
           THEN /\ ~outcome.result.ok
                /\ outcome.result.err =
                      << "Invalid feature value at index", ToString(first - 1), shown >>
           ELSE outcome.result.ok

\* A vector of the wrong length that also holds non-finite elements.
C8_Witness ==
    /\ outcome.called
    /\ Len(input) = 11
    /\ input[1] = NaN
    /\ input[2] = PosInf
    /\ outcome.result.err = << "Expected", "10", "features, got", "11" >>

\* C9: for every vector of 10 finite elements predict succeeds with a
\* confidence in [0.85, 1.0], which is 1.0 when the prediction equals the bias
\* and 0.85 whenever |prediction - bias| is 50 or more.
C9_ConfidenceRange ==
    (/\ outcome.called
     /\ Len(input) = 10
     /\ \A i \in 1 .. Len(input) : input[i].k = "fin")
    => LET p == outcome.result.prediction
           c == outcome.result.confidence
           far == \/ p.k = "inf"
                  \/ p.k = "fin" /\ (p.v - 250 >= 5000 \/ 250 - p.v >= 5000)
       IN /\ outcome.result.ok
          /\ 850000 <= c /\ c <= 1000000
          /\ p = Fin(250) => c = 1000000
          /\ far => c = 850000

\* A finite prediction 50 or more above the bias.
C9_Witness ==
    /\ outcome.called
    /\ outcome.result.ok
    /\ outcome.result.prediction.k = "fin"
    /\ outcome.result.prediction.v - 250 >= 5000
    /\ outcome.result.confidence = 850000

\* C10: predict is a function of its vector alone: two calls with the same
\* vector return the same prediction, confidence and model_version, or the same
\* error, whatever predict calls, recordings, uptime ticks and scrapes happen
\* before or between them.
C10_PredictDeterministic ==
    \A r1, r2 \in Requests :
        (/\ req[r1].body.kind = "features" /\ req[r1].pc \in PastPredict
         /\ req[r2].body.kind = "features" /\ req[r2].pc \in PastPredict
         /\ req[r1].body.features = req[r2].body.features)
        => req[r1].result = req[r2].result

\* A second call with the vector of a completed one, after an uptime tick.
C10_Witness ==
    \E r1, r2 \in Requests :
        /\ r1 # r2
        /\ req[r1].body.kind = "features" /\ req[r1].pc = "done"
        /\ req[r2].body.kind = "features" /\ req[r2].pc = "record_ml_inc"
        /\ req[r1].body.features = req[r2].body.features
        /\ req[r1].result.ok
        /\ req[r1].result.confidence = 992980
        /\ SERVICE_UPTIME_SECONDS >= 1

\* The requests whose get_model call has returned; req[r].model is the
\* reference the call gave them.
ReturnedFromGetModel ==
    { r \in Requests : req[r].body.kind = "features"
                        /\ req[r].pc \in { "predict" } \cup PastPredict }

\* C11: under every interleaving of the get_model callers the model is built
\* exactly once (never before the first call, once from the first return on),
\* every call that has returned, first or later, holds the instance that is in
\* the cell now, so the weights and the bias any caller was given are still the
\* ones in the cell.
C11_SingleSharedModel ==
    /\ new_calls = (IF MODEL_INSTANCE = << >> THEN 0 ELSE 1)
    /\ \A r \in ReturnedFromGetModel :
           /\ new_calls = 1
           /\ MODEL_INSTANCE # << >>
           /\ req[r].model = MODEL_INSTANCE
           /\ req[r].model[1].weights = MODEL_INSTANCE[1].weights
           /\ req[r].model[1].bias = MODEL_INSTANCE[1].bias

\* Two callers raced: both read the empty cell, one has built the model and
\* gone on, the other is still on the slow path of get_or_init.
C11_Witness ==
    \E r1, r2 \in Requests :
        /\ r1 # r2
        /\ r1 \in ReturnedFromGetModel
        /\ req[r1].pc \in PastPredict
        /\ req[r2].pc = "initialize"
        /\ new_calls = 1

\* The requests of POST /predict whose body was parsed into a feature list.
ParsedPredictRequests ==
    { r \in Requests : RouteHandler(req[r].method, req[r].path) = "predict"
                        /\ req[r].body.kind = "features" }

\* C12: every POST /predict whose body was parsed is answered 400 exactly when
\* the engine's validation of its feature list fails, and otherwise 200 with the
\* prediction and confidence of the engine and model_version "v1.0.0"; and the
\* status agrees with the label recorded for the invocation: the "error" count
\* is the number of these requests answered 400, the "success" count the number
\* answered 200 or about to be.
C12_StatusMatchesValidation ==
    /\ \A r \in ParsedPredictRequests :
           req[r].pc \in PastHandler =>
               LET valid == validate_features(LinearRegressionModel_new,
                                              req[r].body.features).ok
               IN  /\ req[r].status \in { 200, 400 }
                   /\ req[r].status = 400 <=> ~valid
                   /\ req[r].status = 200 =>
                          /\ req[r].result = predict(LinearRegressionModel_new,
                                                     req[r].body.features)
                          /\ req[r].result.ok
                          /\ req[r].result.model_version = "v1.0.0"
    /\ CounterAt(ML_PREDICTIONS_TOTAL, << "v1.0.0", "error" >>) =
           Cardinality({ r \in ParsedPredictRequests :
                            req[r].pc \in PastHandler /\ req[r].status = 400 })
    /\ CounterAt(ML_PREDICTIONS_TOTAL, << "v1.0.0", "success" >>) =
           Cardinality({ r \in ParsedPredictRequests :
                            \/ req[r].pc = "record_ml_observe"
                            \/ req[r].pc \in PastHandler /\ req[r].status = 200 })

\* One parsed request was answered 400 and another 200, both returned.
C12_Witness ==
    \E r1, r2 \in ParsedPredictRequests :
        /\ req[r1].pc = "done" /\ req[r1].status = 400 /\ ~req[r1].result.ok
        /\ req[r2].pc = "done" /\ req[r2].status = 200 /\ req[r2].result.ok

\* The response the client gets: status and body.
Response(q) == << q.status, q.result, q.metrics_body >>

\* One step seen from metrics_middleware.  The step in which request r leaves
\* "recording" adds one to the child (method, path, status of r's response) of
\* http_requests_total and to no other; the step in which it leaves "observing"
\* adds one observation, of r's duration, to the child (method, path) of
\* http_request_duration_seconds and to no other; both leave r's response as
\* the handler made it; every other step leaves both metrics alone.
C13_MiddlewareStep ==
    /\ \A r \in Requests : Steps(r, "recording") =>
           LET labels == << req[r].method, req[r].path, status_to_string(req[r].status) >>
           IN  /\ req'[r].pc = "observing"
               /\ Response(req'[r]) = Response(req[r])
               /\ DOMAIN HTTP_REQUESTS_TOTAL' = DOMAIN HTTP_REQUESTS_TOTAL \cup { labels }
               /\ \A l \in DOMAIN HTTP_REQUESTS_TOTAL' :
                      HTTP_REQUESTS_TOTAL'[l] =
                          CounterAt(HTTP_REQUESTS_TOTAL, l) + (IF l = labels THEN 1 ELSE 0)
               /\ HTTP_REQUEST_DURATION_SECONDS' = HTTP_REQUEST_DURATION_SECONDS
    /\ \A r \in Requests : Steps(r, "observing") =>
           LET labels == << req[r].method, req[r].path >>
           IN  /\ req'[r].pc = "done"
               /\ Response(req'[r]) = Response(req[r])
               /\ HTTP_REQUESTS_TOTAL' = HTTP_REQUESTS_TOTAL
               /\ DOMAIN HTTP_REQUEST_DURATION_SECONDS' =
                      DOMAIN HTTP_REQUEST_DURATION_SECONDS \cup { labels }
               /\ \A l \in DOMAIN HTTP_REQUEST_DURATION_SECONDS' :
                      LET old == HistAt(HTTP_REQUEST_DURATION_SECONDS, l, DurationBuckets)
                          new == HTTP_REQUEST_DURATION_SECONDS'[l]
                      IN  IF l = labels
                          THEN /\ new.sample_count = old.sample_count + 1
                               /\ new.sample_sum = old.sample_sum + req[r].duration
                          ELSE new = old
    /\ (\A r \in Requests : ~Steps(r, "recording") /\ ~Steps(r, "observing")) =>
           /\ HTTP_REQUESTS_TOTAL' = HTTP_REQUESTS_TOTAL
           /\ HTTP_REQUEST_DURATION_SECONDS' = HTTP_REQUEST_DURATION_SECONDS

\* The middleware records only once the handler has answered, and a returned
\* request has been counted and observed once: each child of the histogram has
\* as many observations as requests with its labels have returned.
C13_RecordedOncePerReturn ==
    /\ \A r \in Requests : req[r].pc \in PastHandler => req[r].status \in Statuses
    /\ \A r \in Requests : req[r].pc \notin PastHandler \cup { "idle" } => req[r].status = 0
    /\ \A r \in Requests : req[r].pc = "done" =>
           /\ << req[r].method, req[r].path, status_to_string(req[r].status) >>
                  \in DOMAIN HTTP_REQUESTS_TOTAL
           /\ << req[r].method, req[r].path >> \in DOMAIN HTTP_REQUEST_DURATION_SECONDS
    /\ \A l \in DOMAIN HTTP_REQUEST_DURATION_SECONDS :
           HTTP_REQUEST_DURATION_SECONDS[l].sample_count =
               Cardinality({ r \in Requests : /\ req[r].pc = "done"
                                               /\ << req[r].method, req[r].path >> = l })

RejectedPredictRequests ==
    { r \in Requests : RouteHandler(req[r].method, req[r].path) = "predict"
                        /\ req[r].body.kind \in { "invalid_json", "missing_features" } }

RECURSIVE SumOfCounter(_, _)
SumOfCounter(c, S) ==
    IF S = {} THEN 0
    ELSE LET l == CHOOSE x \in S : TRUE
         IN c[l] + SumOfCounter(c, S \ {l})

RECURSIVE SumOfSampleCounts(_, _)
SumOfSampleCounts(h, S) ==
    IF S = {} THEN 0
    ELSE LET l == CHOOSE x \in S : TRUE
         IN h[l].sample_count + SumOfSampleCounts(h, S \ {l})

SuccessRecordingsInProgress(v) ==
    { r \in Requests : /\ req[r].pc = "record_ml_observe"
                        /\ req[r].result.model_version = v }

\* C15: for every model version v, the observation count of
\* ml_prediction_confidence{v} is never ahead of ml_predictions_total{v,
\* "success"}; the counter is ahead by at most (here: exactly) the number of
\* successful recordings in progress, and the two are equal in every state in
\* which no record_ml_prediction call is in progress.
C15_HistogramTracksSuccessCounter ==
    \A v \in { MODEL_VERSION } \cup { l[1] : l \in DOMAIN ML_PREDICTIONS_TOTAL }
                               \cup { l[1] : l \in DOMAIN ML_PREDICTION_CONFIDENCE } :
        LET counter == CounterAt(ML_PREDICTIONS_TOTAL, << v, "success" >>)
            observations == HistAt(ML_PREDICTION_CONFIDENCE, << v >>,
                                   ConfidenceBuckets).sample_count
        IN  /\ counter >= observations
            /\ counter - observations = Cardinality(SuccessRecordingsInProgress(v))
            /\ (\A r \in Requests : req[r].pc \notin { "record_ml_inc", "record_ml_observe" })
                   => counter = observations

\* One successful prediction is fully recorded and a second has incremented
\* the counter but not yet observed: the counter is one ahead.
C15_Witness ==
    \E r1, r2 \in Requests :
        /\ req[r1].pc \in PastMlObserve /\ req[r1].result.ok
        /\ req[r2].pc = "record_ml_observe"
        /\ CounterAt(ML_PREDICTIONS_TOTAL, << MODEL_VERSION, "success" >>) = 2
        /\ HistAt(ML_PREDICTION_CONFIDENCE, << MODEL_VERSION >>,
                  ConfidenceBuckets).sample_count = 1

====
